---- MODULE Spec2Model ----
(***************************************************************************)
(* A model of SensorHost (src/models/sensor_host.py): the component that   *)
(* polls sensors, publishes each reading as <temp_dir>/<name>/current.json *)
(* through next.json + os.replace, and serves the directory over HTTP.     *)
(*                                                                         *)
(* Two threads exist.  The asyncio loop thread runs reconfigure,           *)
(* _stop_server, do_command and the poll task; a coroutine gives up the    *)
(* thread only at an await (asyncio.sleep, sensor.get_readings).  The      *)
(* http.server thread (serve_forever) handles one GET at a time and runs   *)
(* in parallel with whatever the loop thread is doing.  The variable pc    *)
(* is the loop thread's position inside a synchronous stretch of code;     *)
(* pc = "idle" means the loop is free to run another callback.             *)
(***************************************************************************)
EXTENDS Integers, Sequences, FiniteSets, TLC

\* ------------------------------------------------------------- bounds
MaxReconf == 2      \* calls of reconfigure in one behaviour
MaxCmd == 1         \* refresh_now commands in flight at once
DocLen == 2         \* write() chunks of one serialized document
MaxReading == 2     \* distinct values get_readings can return
Scale == 2          \* a number_value is a multiple of 1/Scale
MaxStart == 1       \* poll tasks started outside reconfigure, at once

\* --------------------------------------------------- program constants
DefaultPort == 8080
DefaultRefresh == 5
MaxPort == 65535

Names == {"a", "b"}
Readings == 1..MaxReading
NoServer == [port |-> 0, dir |-> 0]
NoCfg == [has_sensors |-> FALSE, sensors |-> <<>>, has_port |-> FALSE,
          port |-> 0, has_refresh |-> FALSE, refresh |-> 0, deps |-> {}]
\* A file name that does not exist; a file's content is a sequence of chunks,
\* each the reading (>= 1) of the publish that wrote it.
Absent == <<0>>
NoWr == [task |-> 0, dir |-> 0, name |-> "", val |-> 0, pos |-> 0,
         file |-> "", before |-> Absent]
\* The open descriptor of the request in progress: fd.at = "link" reads what
\* the name fd.file of directory fd.dir/fd.name holds now; fd.at = "orphan"
\* reads an inode that no name refers to any more, whose content is fd.data.
NoFd == [at |-> "none", dir |-> 0, name |-> "", file |-> "", data |-> <<>>]
IdleHttp == [st |-> "idle", fd |-> NoFd, buf |-> <<>>]
NoPass == [list |-> <<>>, idx |-> 0, gen |-> 0, log |-> <<>>, failed |-> {}]
NoLast == [port |-> 0, sensors |-> <<>>, refresh_interval |-> 0]
\* What a call hands back: NoReply while the loop thread is inside a call or
\* has gone on to something else, else the dict do_command returned.
NoReply == [key |-> "", text |-> ""]
Refreshed == [key |-> "message", text |-> "Sensor readings refreshed"]
NotRunning == [key |-> "error", text |-> "SensorHost not running"]

VARIABLES
    sensors,          \* self.sensors: the resolved handles, by name, in order
    port,             \* self.port
    refresh_interval, \* self.refresh_interval
    server,           \* self.server: NoServer (None) or the HTTPServer
    server_thread,    \* self.server_thread: "none", "live" or "dead"
    refresh_task,     \* self.refresh_task: 0 (None) or a task id
    temp_dir,         \* self.temp_dir: 0 (None) or a directory id
    running,          \* self.running
    pc,               \* position of the loop thread
    op,               \* which handler the loop thread is in
    cfg,              \* the config argument of the reconfigure in progress
    gen,              \* number of reconfigure calls made so far
    outcome,          \* how the last call ended, if a reconfigure: "ok", "raised"
    tasks,            \* coroutines suspended at an await, by task id
    wr,               \* the publish the loop thread is in the middle of
    fs,               \* fs: directory id -> sensor subdirectory -> files
    bound,            \* ports this process holds a listening socket on
    httpd,            \* the request the http.server thread is handling
    lastOk,           \* what the last successful reconfigure configured
    reply             \* what the call that has just returned handed its caller

vars == <<sensors, port, refresh_interval, server, server_thread, refresh_task,
          temp_dir, running, pc, op, cfg, gen, outcome, tasks, wr, fs,
          bound, httpd, lastOk, reply>>

fields == <<sensors, port, refresh_interval, server, server_thread,
            refresh_task, temp_dir, running>>

\* ------------------------------------------------------------ helpers
Range(s) == {s[i] : i \in 1..Len(s)}

\* The configurations reconfigure is called with: sensor names, port, the
\* optional refresh attribute, and the names the dependencies hold a handle
\* for.  All of them pass validate_config.  A port is the number_value of
\* the attribute, a double, counted in units of 1/Scale.
Configs ==
    { [has_sensors |-> TRUE, sensors |-> <<"a", "b">>, has_port |-> TRUE,
       port |-> 8080 * Scale, has_refresh |-> FALSE, refresh |-> 0,
       deps |-> {"a", "b"}],
      [has_sensors |-> TRUE, sensors |-> <<"b", "a">>, has_port |-> TRUE,
       port |-> 8081 * Scale, has_refresh |-> TRUE, refresh |-> 2,
       deps |-> {"a"}],
      [has_sensors |-> TRUE, sensors |-> <<"b">>, has_port |-> TRUE,
       port |-> 8080 * Scale, has_refresh |-> TRUE, refresh |-> -1,
       deps |-> {"a"}] }

\* int(x) of a number_value x: the fraction is cut off, towards zero.
IntOf(x) == IF x >= 0 THEN x \div Scale ELSE 0 - ((0 - x) \div Scale)

\* What validate_config returns for an accepted configuration is not used
\* here; Accepted stands for "no ValueError".
Accepted == ""

\* lines 72-84: the message of the ValueError raised, or Accepted.
validate_config(c) ==
    IF ~c.has_sensors THEN "'sensors' attribute is required"
    ELSE IF Len(c.sensors) = 0 THEN "At least one sensor must be specified"
    ELSE IF ~c.has_port THEN "'port' attribute is required"
    ELSE IF c.port <= 0 \/ c.port > MaxPort * Scale
         THEN "Port must be between 1 and 65535"
    ELSE Accepted

Doc(v) == [i \in 1..DocLen |-> v]

NoEntries == [next |-> Absent, current |-> Absent]

Restrict(fn, S) == [x \in (DOMAIN fn) \cap S |-> fn[x]]

Exists(f, d, n) == d \in DOMAIN f /\ n \in DOMAIN f[d]

\* What a file name holds: Absent when the name does not exist.
Content(f, d, n, file) == IF Exists(f, d, n) THEN f[d][n][file] ELSE Absent

\* What a read through descriptor fd sees.
FdData(f, fd) == IF fd.at = "link" THEN f[fd.dir][fd.name][fd.file] ELSE fd.data

\* The descriptor after the name it was opened by is unlinked: the inode
\* lives on, with the content it has, until the descriptor is closed.
Orphan(f, fd) == [NoFd EXCEPT !.at = "orphan", !.data = FdData(f, fd)]

Init ==
    /\ sensors = <<>>
    /\ port = DefaultPort
    /\ refresh_interval = DefaultRefresh
    /\ server = NoServer
    /\ server_thread = "none"
    /\ refresh_task = 0
    /\ temp_dir = 0
    /\ running = FALSE
    /\ pc = "idle"
    /\ op = "none"
    /\ cfg = NoCfg
    /\ gen = 0
    /\ outcome = "none"
    /\ tasks = <<>>
    /\ wr = NoWr
    /\ fs = <<>>
    /\ bound = {}
    /\ httpd = IdleHttp
    /\ lastOk = NoLast
    /\ reply = NoReply

\* ------------------------------------------------- asyncio task helpers
\* task.done(): a finished coroutine is no longer in tasks.
Done(t) == t \notin DOMAIN tasks

\* A stop that drops its reference to the task and cancels nothing.
CancelNothing(ts, t) == ts

\* task.cancel(): CancelledError is delivered at the task's next step.
\* What the coroutine held in its frame is never read again.
Cancel(ts, t) == [ts EXCEPT ![t] = [@ EXCEPT !.cancelled = TRUE, !.pass = NoPass]]

\* A task: its kind ("loop" or "cmd"), the await it is suspended at
\* ("new", "sleep", "fetch"), and the pass it is in: the list the for
\* loop iterates, the position in it, the temp_dir the pass began under,
\* the sensors it has published and those that failed.
NewTask(kind) == [kind |-> kind, st |-> "new", cancelled |-> FALSE, pass |-> NoPass]

\* ---------------------------------------------------------- _stop_server
\* A reconfigure that goes straight to the new configuration.
FirstStepNoStop == "extract"

\* The step reconfigure starts with: line 104 calls _stop_server.
FirstStep == "stop_task"

\* reconfigure(config, dependencies) is entered; validate_config accepted c.
ReconfigureCall(c) ==
    /\ pc = "idle"
    /\ gen < MaxReconf
    /\ pc' = FirstStep
    /\ op' = "reconfigure"
    /\ cfg' = c
    /\ gen' = gen + 1
    /\ outcome' = "none"
    /\ UNCHANGED <<fields, tasks, wr, fs, bound, httpd, lastOk>>
    /\ reply' = NoReply

\* _stop_server is entered on its own (the shutdown path).
ShutdownCall ==
    /\ pc = "idle"
    /\ pc' = "stop_task"
    /\ op' = "shutdown"
    /\ outcome' = "none"
    /\ UNCHANGED <<fields, cfg, gen, tasks, wr, fs, bound, httpd, lastOk>>
    /\ reply' = NoReply

\* lines 202-204
StopTask ==
    /\ pc = "stop_task"
    /\ IF refresh_task # 0 /\ ~Done(refresh_task)
       THEN /\ tasks' = Cancel(tasks, refresh_task)
            /\ refresh_task' = 0
       ELSE UNCHANGED <<tasks, refresh_task>>
    /\ pc' = "stop_srv"
    /\ UNCHANGED <<sensors, port, refresh_interval, server, server_thread,
                   temp_dir, running, op, cfg, gen, outcome, wr, fs, bound,
                   httpd, lastOk>>
    /\ reply' = NoReply

\* A server that is shut down and dropped with its socket still open.
ServerNoClose(b, s) == b

\* server_close(): the listening socket is closed and the port released.
ServerClose(b, s) == b \ {s.port}

\* lines 206-209.  shutdown() returns only when serve_forever has left its
\* loop, and serve_forever handles the request it is in to the end first.
StopSrv ==
    /\ pc = "stop_srv"
    /\ IF server # NoServer
       THEN /\ httpd.st # "reading"
            /\ bound' = ServerClose(bound, server)
            /\ server' = NoServer
            /\ httpd' = IdleHttp
       ELSE UNCHANGED <<bound, server, httpd>>
    /\ pc' = "stop_join"
    /\ UNCHANGED <<sensors, port, refresh_interval, server_thread, refresh_task,
                   temp_dir, running, op, cfg, gen, outcome, tasks, wr, fs, lastOk>>
    /\ reply' = NoReply

\* A join that is made whenever there is a thread object.
JoinAnyThread(th) == th # "none"

\* line 211: a thread that has not been seen finished can be alive.
CanBeAlive(th) == th = "live"

\* lines 211-213.  After shutdown() the thread is returning from
\* serve_forever: is_alive() may still see it alive, or not any more.
StopJoin ==
    /\ pc = "stop_join"
    /\ \/ /\ CanBeAlive(server_thread)
          /\ \E alive \in BOOLEAN :
                server_thread' = IF alive THEN "none" ELSE "dead"
       \/ /\ ~CanBeAlive(server_thread)
          /\ UNCHANGED server_thread
    /\ pc' = "stop_rm"
    /\ UNCHANGED <<sensors, port, refresh_interval, server, refresh_task,
                   temp_dir, running, op, cfg, gen, outcome, tasks, wr, fs,
                   bound, httpd, lastOk>>
    /\ reply' = NoReply

\* shutil.rmtree(d, ignore_errors=True)
RmTree(f, d) == Restrict(f, (DOMAIN f) \ {d})

\* The request's descriptor after directory d is removed.
FdRmTree(f, h, d) ==
    IF h.fd.at = "link" /\ h.fd.dir = d THEN [h EXCEPT !.fd = Orphan(f, h.fd)] ELSE h

\* lines 215-218
StopRm ==
    /\ pc = "stop_rm"
    /\ IF temp_dir # 0 /\ temp_dir \in DOMAIN fs
       THEN /\ fs' = RmTree(fs, temp_dir)
            /\ httpd' = FdRmTree(fs, httpd, temp_dir)
            /\ temp_dir' = 0
       ELSE UNCHANGED <<fs, httpd, temp_dir>>
    /\ pc' = "stop_flag"
    /\ UNCHANGED <<sensors, port, refresh_interval, server, server_thread,
                   refresh_task, running, op, cfg, gen, outcome, tasks, wr,
                   bound, lastOk>>
    /\ reply' = NoReply

\* line 220, and the return to the caller: reconfigure goes on at line 107.
StopFlag ==
    /\ pc = "stop_flag"
    /\ running' = FALSE
    /\ IF op = "reconfigure"
       THEN pc' = "extract" /\ op' = op
       ELSE pc' = "idle" /\ op' = "none"
    /\ UNCHANGED <<sensors, port, refresh_interval, server, server_thread,
                   refresh_task, temp_dir, cfg, gen, outcome, tasks, wr, fs,
                   bound, httpd, lastOk>>
    /\ reply' = NoReply

\* ----------------------------------------------------------- reconfigure
\* lines 111-116: the refresh interval, 5.0 when absent or not positive.
RefreshOf(c) ==
    IF c.has_refresh
    THEN IF c.refresh <= 0 THEN DefaultRefresh ELSE c.refresh
    ELSE DefaultRefresh

\* A resolution that takes every configured name.
ResolveUnchecked(c) == c.sensors

\* lines 119-126: the configured names that have a handle, in order.
Resolve(c) == SelectSeq(c.sensors, LAMBDA n : n \in c.deps)

\* lines 107-126
Extract ==
    /\ pc = "extract"
    /\ port' = IntOf(cfg.port)
    /\ refresh_interval' = RefreshOf(cfg)
    /\ sensors' = Resolve(cfg)
    /\ cfg' = NoCfg
    /\ pc' = "setup_dir"
    /\ UNCHANGED <<server, server_thread, refresh_task, temp_dir, running, op,
                   gen, outcome, tasks, wr, fs, bound, httpd, lastOk>>
    /\ reply' = NoReply

\* The loop thread leaves reconfigure with an exception.
Raise ==
    /\ pc' = "idle"
    /\ op' = "none"
    /\ outcome' = "raised"

\* A setup that makes the root directory alone.
MakeNoDirs(ss) == <<>>

\* lines 179-181: one subdirectory, empty, for each sensor.
MakeDirs(ss) == [n \in Range(ss) |-> NoEntries]

\* lines 170-183.  mkdtemp either makes a directory with a name that no
\* other directory has (the call number stands for it) or raises.
SetupTempDirectory ==
    /\ pc = "setup_dir"
    /\ LET f0 == IF temp_dir # 0 THEN RmTree(fs, temp_dir) ELSE fs
       IN \/ /\ fs' = f0 @@ (gen :> MakeDirs(sensors))
             /\ temp_dir' = gen
             /\ pc' = "start_srv"
             /\ UNCHANGED <<op, outcome>>
          \/ /\ fs' = f0
             /\ UNCHANGED temp_dir
             /\ Raise
    /\ httpd' = IF temp_dir # 0 THEN FdRmTree(fs, httpd, temp_dir) ELSE httpd
    /\ UNCHANGED <<sensors, port, refresh_interval, server, server_thread,
                   refresh_task, running, cfg, gen, tasks, wr, bound, lastOk>>
    /\ reply' = NoReply

\* lines 185-198.  HTTPServer(('0.0.0.0', port)) binds, or raises when the
\* port cannot be bound (held by this or another process, privilege).
StartServer ==
    /\ pc = "start_srv"
    /\ IF server # NoServer
       THEN /\ pc' = "start_task"
            /\ UNCHANGED <<server, server_thread, bound, op, outcome>>
       ELSE \/ /\ port \notin bound
               /\ server' = [port |-> port, dir |-> temp_dir]
               /\ bound' = bound \cup {port}
               /\ server_thread' = "live"
               /\ pc' = "start_task"
               /\ UNCHANGED <<op, outcome>>
            \/ /\ Raise
               /\ UNCHANGED <<server, server_thread, bound>>
    /\ UNCHANGED <<sensors, port, refresh_interval, refresh_task, temp_dir,
                   running, cfg, gen, tasks, wr, fs, httpd, lastOk>>
    /\ reply' = NoReply

\* lines 223-230
StartRefreshTask ==
    /\ pc = "start_task"
    /\ LET ts == IF refresh_task # 0 /\ ~Done(refresh_task)
                 THEN Cancel(tasks, refresh_task) ELSE tasks
       IN tasks' = ts @@ (gen :> NewTask("loop"))
    /\ refresh_task' = gen
    /\ pc' = "set_running"
    /\ UNCHANGED <<sensors, port, refresh_interval, server, server_thread,
                   temp_dir, running, op, cfg, gen, outcome, wr, fs, bound,
                   httpd, lastOk>>
    /\ reply' = NoReply

\* lines 135-138
SetRunning ==
    /\ pc = "set_running"
    /\ running' = TRUE
    /\ pc' = "idle"
    /\ op' = "none"
    /\ outcome' = "ok"
    /\ lastOk' = [port |-> port, sensors |-> sensors,
                  refresh_interval |-> refresh_interval]
    /\ UNCHANGED <<sensors, port, refresh_interval, server, server_thread,
                   refresh_task, temp_dir, cfg, gen, tasks, wr, fs, bound, httpd>>
    /\ reply' = NoReply

\* ------------------------------------------------------------ poll pass
Put(ts, t, rec) == (t :> rec) @@ ts
Drop(ts, t) == Restrict(ts, (DOMAIN ts) \ {t})

\* The pass is over.  The poll loop tests self.running again (line 234) and
\* sleeps or returns; do_command returns its confirmation (line 159).
Finish(ts, t, rec) ==
    IF rec.kind = "loop"
    THEN IF running THEN Put(ts, t, [rec EXCEPT !.st = "sleep", !.pass = NoPass])
         ELSE Drop(ts, t)
    ELSE Drop(ts, t)

\* lines 245-247: the for loop moves to the next sensor of the list it
\* iterates, and awaits its get_readings.
Step(ts, t, rec) ==
    IF rec.pass.idx < Len(rec.pass.list)
    THEN Put(ts, t, [rec EXCEPT !.pass.idx = @ + 1])
    ELSE Finish(ts, t, rec)

\* A pass whose for loop has no try/except around one sensor's update: the
\* exception ends the pass (line 240 catches it for the poll loop).
AbortPass(ts, t, rec) == Finish(ts, t, rec)

\* A pass whose exception is caught nowhere: it ends the task.
EndTask(ts, t, rec) == Drop(ts, t)

\* lines 248-249 (after 267-269): the exception of one sensor is logged and
\* the for loop goes on.
AfterFailure(ts, t, rec) == Step(ts, t, rec)

\* lines 243-247: _update_all_sensor_readings starts iterating self.sensors.
BeginPass(ts, t, rec) ==
    LET r == [rec EXCEPT !.st = "fetch",
                         !.pass = [list |-> sensors, idx |-> 1, gen |-> temp_dir,
                                   log |-> <<>>, failed |-> {}]]
    IN IF sensors = <<>> THEN Finish(ts, t, r) ELSE Put(ts, t, r)

\* The sensor whose get_readings the task awaits.
Sensor(rec) == rec.pass.list[rec.pass.idx]

Failed(rec) == [rec EXCEPT !.pass.failed = @ \cup {Sensor(rec)}]
Published(rec) == [rec EXCEPT !.pass.log = Append(@, Sensor(rec))]

\* lines 232-234: the poll task runs for the first time.
LoopStart(t) ==
    /\ pc = "idle"
    /\ t \in DOMAIN tasks
    /\ tasks[t].st = "new" /\ ~tasks[t].cancelled
    /\ tasks' = IF running THEN Put(tasks, t, [tasks[t] EXCEPT !.st = "sleep"])
                ELSE Drop(tasks, t)
    /\ UNCHANGED <<fields, pc, op, cfg, gen, outcome, wr, fs, bound, httpd, lastOk>>
    /\ reply' = NoReply

\* lines 238-239: CancelledError is thrown into the task at its await (or
\* before its first step); no except Exception clause catches it and the
\* loop breaks.
TaskCancelled(t) ==
    /\ pc = "idle"
    /\ t \in DOMAIN tasks
    /\ tasks[t].cancelled
    /\ tasks' = Drop(tasks, t)
    /\ UNCHANGED <<fields, pc, op, cfg, gen, outcome, wr, fs, bound, httpd, lastOk>>
    /\ reply' = NoReply

\* lines 236-237: the sleep is over, a scheduled tick begins.
SleepElapsed(t) ==
    /\ pc = "idle"
    /\ t \in DOMAIN tasks
    /\ tasks[t].st = "sleep" /\ ~tasks[t].cancelled
    /\ tasks' = BeginPass(tasks, t, tasks[t])
    /\ UNCHANGED <<fields, pc, op, cfg, gen, outcome, wr, fs, bound, httpd, lastOk>>
    /\ reply' = NoReply

\* lines 158-159: the pass of command t is over when t is no longer
\* suspended, and do_command returns its confirmation.
Returned(ts, t) == IF t < 0 /\ t \notin DOMAIN ts THEN Refreshed ELSE NoReply

\* A refresh_now that does not look at self.running.
CanRefreshAlways == TRUE

\* line 157
CanRefresh == running

FreeCmd == CHOOSE i \in 1..MaxCmd : (0 - i) \notin DOMAIN tasks

\* lines 156-161: do_command {"refresh_now": ...}
RefreshNow ==
    /\ pc = "idle"
    /\ \E i \in 1..MaxCmd : (0 - i) \notin DOMAIN tasks
    /\ IF CanRefresh
       THEN /\ tasks' = BeginPass(tasks, 0 - FreeCmd, NewTask("cmd"))
            /\ reply' = Returned(tasks', 0 - FreeCmd)
       ELSE /\ UNCHANGED tasks
            /\ reply' = NotRunning
    /\ UNCHANGED <<fields, pc, op, cfg, gen, outcome, wr, fs, bound, httpd, lastOk>>

Fetching(t) ==
    /\ pc = "idle"
    /\ t \in DOMAIN tasks
    /\ tasks[t].st = "fetch" /\ ~tasks[t].cancelled

\* line 254 raises: get_readings failed.
FetchFail(t) ==
    /\ Fetching(t)
    /\ tasks' = AfterFailure(tasks, t, Failed(tasks[t]))
    /\ UNCHANGED <<fields, pc, op, cfg, gen, outcome, wr, fs, bound, httpd, lastOk>>
    /\ reply' = Returned(tasks', t)

\* A publish that writes the document straight into current.json.
PublishDirect == "current"

\* The name the document is written to before the rename (line 258).
PublishTarget == "next"

\* The directory the files are written in: self.temp_dir as it is when
\* get_readings has returned (line 255).
TargetDir(rec) == temp_dir

\* lines 254-261 raise after get_readings returned: os.path.join(None, ...)
\* is a TypeError, open() in a missing directory a FileNotFoundError.
OpenFail(t) ==
    /\ Fetching(t)
    /\ LET d == TargetDir(tasks[t])
       IN d = 0 \/ ~Exists(fs, d, Sensor(tasks[t]))
    /\ tasks' = AfterFailure(tasks, t, Failed(tasks[t]))
    /\ UNCHANGED <<fields, pc, op, cfg, gen, outcome, wr, fs, bound, httpd, lastOk>>
    /\ reply' = Returned(tasks', t)

\* open(path, 'w') on file of d/n: an existing file is truncated (a reader
\* that holds it open sees that), a missing one is created.
OpenW(f, d, n, file) == [f EXCEPT ![d][n][file] = <<>>]

\* lines 254-261: get_readings returned v and open(temp_file, 'w') made the
\* file, or truncated the one a failed publish left behind.
FetchOk(t, v) ==
    /\ Fetching(t)
    /\ LET d == TargetDir(tasks[t])
           n == Sensor(tasks[t])
       IN /\ d # 0 /\ Exists(fs, d, n)
          /\ fs' = OpenW(fs, d, n, PublishTarget)
          /\ wr' = [task |-> t, dir |-> d, name |-> n, val |-> v, pos |-> 0,
                    file |-> PublishTarget,
                    before |-> Content(fs, d, n, "current")]
    /\ pc' = "pub"
    /\ UNCHANGED <<fields, op, cfg, gen, outcome, tasks, bound, httpd, lastOk>>
    /\ reply' = NoReply

\* line 262: json.dump hands the next chunk of the document to the file.
WriteChunk ==
    /\ pc = "pub"
    /\ wr.pos < DocLen
    /\ fs' = [fs EXCEPT ![wr.dir][wr.name][wr.file] = Append(@, wr.val)]
    /\ wr' = [wr EXCEPT !.pos = @ + 1]
    /\ UNCHANGED <<fields, pc, op, cfg, gen, outcome, tasks, bound, httpd, lastOk>>
    /\ reply' = NoReply

\* os.replace(src, "current.json") in directory d/n: the name current.json
\* now refers to src's inode, and the name src is gone.
Rename(f, d, n, src) ==
    IF src = "current" THEN f
    ELSE [f EXCEPT ![d][n] = [next |-> Absent, current |-> f[d][n][src]]]

\* The request's descriptor after that rename: the inode current.json
\* referred to has lost its name.
FdRename(f, h, d, n, src) ==
    IF src # "current" /\ h.fd.at = "link" /\ h.fd.dir = d /\ h.fd.name = n
    THEN IF h.fd.file = "current" THEN [h EXCEPT !.fd = Orphan(f, h.fd)]
         ELSE [h EXCEPT !.fd.file = "current"]
    ELSE h

\* line 265: the document is complete and renamed over current.json.
Replace ==
    /\ pc = "pub"
    /\ wr.pos = DocLen
    /\ fs' = Rename(fs, wr.dir, wr.name, wr.file)
    /\ httpd' = FdRename(fs, httpd, wr.dir, wr.name, wr.file)
    /\ tasks' = Step(tasks, wr.task, Published(tasks[wr.task]))
    /\ wr' = NoWr
    /\ pc' = "idle"
    /\ UNCHANGED <<fields, op, cfg, gen, outcome, bound, lastOk>>
    /\ reply' = Returned(tasks', wr.task)

\* An error path that removes the sensor's files to "clean up".
OnPublishErrorUnlink(f, d, n) == [f EXCEPT ![d][n] = NoEntries]

\* lines 267-269: the error is logged and raised again; no file is touched.
OnPublishError(f, d, n) == f

\* lines 262-269: json.dump raises (a value it cannot serialize), or the
\* write, the close or the rename fails with an OSError.
PublishFail ==
    /\ pc = "pub"
    /\ fs' = OnPublishError(fs, wr.dir, wr.name)
    /\ tasks' = AfterFailure(tasks, wr.task, Failed(tasks[wr.task]))
    /\ wr' = NoWr
    /\ pc' = "idle"
    /\ UNCHANGED <<fields, op, cfg, gen, outcome, bound, httpd, lastOk>>
    /\ reply' = Returned(tasks', wr.task)

\* ---------------------------------------------------- http.server thread
\* The file a GET of /<n>/current.json is answered from.
Served == "current"

\* SimpleHTTPRequestHandler.send_head for GET /<n>/current.json: the file
\* under the served directory is opened, or the answer is 404.  Once
\* shutdown() is called (line 207, pc = "stop_srv") serve_forever finishes
\* the request it is handling and takes no other.
ReqOpen(n) ==
    /\ server # NoServer
    /\ pc # "stop_srv"
    /\ httpd.st # "reading"
    /\ IF Content(fs, server.dir, n, Served) # Absent
       THEN httpd' = [st |-> "reading", buf |-> <<>>,
                      fd |-> [NoFd EXCEPT !.at = "link", !.dir = server.dir,
                                          !.name = n, !.file = Served]]
       ELSE httpd' = IdleHttp
    /\ UNCHANGED <<fields, pc, op, cfg, gen, outcome, tasks, wr, fs, bound, lastOk>>
    /\ UNCHANGED reply

\* copyfile: the next chunk is read from the open file; at end of file the
\* response, httpd.buf, is complete and the descriptor is closed.
ReqRead ==
    /\ httpd.st = "reading"
    /\ LET data == FdData(fs, httpd.fd)
       IN IF Len(httpd.buf) < Len(data)
          THEN httpd' = [httpd EXCEPT !.buf = Append(@, data[Len(@) + 1])]
          ELSE httpd' = IdleHttp
    /\ UNCHANGED <<fields, pc, op, cfg, gen, outcome, tasks, wr, fs, bound, lastOk>>
    /\ UNCHANGED reply

\* ------------------------------------------------------------ do_command
\* The path mkdtemp gave directory d.
DirName(d) == "/dev/shm/sensor_host_" \o ToString(d)

\* lines 148-155: the answer to {"status": ...}, read when the loop thread
\* is free (pc = "idle").
Status ==
    [running |-> running,
     port |-> port,
     sensors |-> sensors,
     refresh_interval |-> refresh_interval,
     temp_dir |-> IF temp_dir = 0 THEN "" ELSE DirName(temp_dir)]

\* ------------------------------------------------------- specification
Next ==
    \/ \E c \in Configs : ReconfigureCall(c)
    \/ ShutdownCall
    \/ StopTask
    \/ StopSrv
    \/ StopJoin
    \/ StopRm
    \/ StopFlag
    \/ Extract
    \/ SetupTempDirectory
    \/ StartServer
    \/ StartRefreshTask
    \/ SetRunning
    \/ \E t \in DOMAIN tasks : LoopStart(t)
    \/ \E t \in DOMAIN tasks : TaskCancelled(t)
    \/ \E t \in DOMAIN tasks : SleepElapsed(t)
    \/ RefreshNow
    \/ \E t \in DOMAIN tasks : FetchFail(t)
    \/ \E t \in DOMAIN tasks : OpenFail(t)
    \/ \E t \in DOMAIN tasks, v \in Readings : FetchOk(t, v)
    \/ WriteChunk
    \/ Replace
    \/ PublishFail
    \/ \E n \in Names : ReqOpen(n)
    \/ ReqRead

Spec == Init /\ [][Next]_vars

\* The scheduled ticks of one Generation: one reconfigure, then the poll task
\* alone (no command, no HTTP request, no teardown).
TickNext ==
    \/ gen = 0 /\ \E c \in Configs : ReconfigureCall(c)
    \/ StopTask
    \/ StopSrv
    \/ StopJoin
    \/ StopRm
    \/ StopFlag
    \/ Extract
    \/ SetupTempDirectory
    \/ StartServer
    \/ StartRefreshTask
    \/ SetRunning
    \/ \E t \in DOMAIN tasks : LoopStart(t)
    \/ \E t \in DOMAIN tasks : SleepElapsed(t)
    \/ \E t \in DOMAIN tasks : FetchFail(t)
    \/ \E t \in DOMAIN tasks, v \in Readings : FetchOk(t, v)
    \/ WriteChunk
    \/ Replace
    \/ PublishFail

\* The sensor whose get_readings never has to resolve.
Hung == "a"

\* Synchronous code runs on: the loop thread is never stuck inside a handler
\* or a publish.
LoopThreadRuns ==
    \/ StopTask \/ StopSrv \/ StopJoin \/ StopRm \/ StopFlag \/ Extract
    \/ SetupTempDirectory \/ StartServer \/ StartRefreshTask \/ SetRunning
    \/ WriteChunk \/ Replace

\* The loop runs a task that is ready, and asyncio.sleep ends.
TimersFire == \E t \in DOMAIN tasks : LoopStart(t) \/ SleepElapsed(t)

\* get_readings of every sensor but Hung returns.
OthersResolve ==
    \E t \in DOMAIN tasks, v \in Readings :
        tasks[t].st = "fetch" /\ Sensor(tasks[t]) # Hung /\ FetchOk(t, v)

TickSpec ==
    /\ Init /\ [][TickNext]_vars
    /\ WF_vars(LoopThreadRuns) /\ WF_vars(TimersFire) /\ WF_vars(OthersResolve)

\* The poll tasks that can still run a tick.
LiveLoops == {t \in DOMAIN tasks : tasks[t].kind = "loop" /\ ~tasks[t].cancelled}

Docs == {Doc(v) : v \in Readings}

\* ------------------------------------------------ configuration inputs
\* The port values a configuration is drawn with: below, at and just above
\* zero, the ends of the port range and their neighbours, and 70000.
PortValues ==
    {0 - Scale, 0, 1, Scale, 8080 * Scale, MaxPort * Scale,
     MaxPort * Scale + 1, 70000 * Scale}

\* The configurations the framework may be handed: with or without the
\* sensors and port attributes, with an empty or a non-empty sensor list.
RawConfigs ==
    { c \in [has_sensors : BOOLEAN, sensors : {<<>>, <<"a">>},
             has_port : BOOLEAN, port : PortValues, has_refresh : {FALSE},
             refresh : {0}, deps : {{"a"}}] :
        (c.has_sensors \/ c.sensors = <<>>) /\ (c.has_port \/ c.port = 0) }

ValueError(text) == [key |-> "ValueError", text |-> text]

\* lines 72-84: validate_config(c) raises.  It is a classmethod: it has no
\* instance to touch, and the caller makes no reconfigure call.
ValidateConfigRaises(c) ==
    /\ pc = "idle"
    /\ validate_config(c) # Accepted
    /\ reply' = ValueError(validate_config(c))
    /\ UNCHANGED <<fields, pc, op, cfg, gen, outcome, tasks, wr, fs, bound,
                   httpd, lastOk>>

\* lines 86-92, then line 104: validate_config(c) returns and the caller
\* goes on to reconfigure(c, dependencies).
ValidatedReconfigure(c) ==
    /\ validate_config(c) = Accepted
    /\ ReconfigureCall(c)

\* Configurations arriving through validate_config, and the reconfigure
\* calls they lead to; no poll task runs and no request arrives.
ConfigNext ==
    \/ \E c \in RawConfigs : ValidateConfigRaises(c)
    \/ \E c \in RawConfigs : ValidatedReconfigure(c)
    \/ StopTask
    \/ StopSrv
    \/ StopJoin
    \/ StopRm
    \/ StopFlag
    \/ Extract
    \/ SetupTempDirectory
    \/ StartServer
    \/ StartRefreshTask
    \/ SetRunning

ConfigSpec == Init /\ [][ConfigNext]_vars

\* ------------------------------------------------------ teardown runs
\* One Generation with its poll task and its HTTP requests, and the calls
\* of _stop_server: get_readings never has to return and the client of a
\* request never has to finish it.
StopNext ==
    \/ gen = 0 /\ \E c \in Configs : ReconfigureCall(c)
    \/ ShutdownCall
    \/ StopTask
    \/ StopSrv
    \/ StopJoin
    \/ StopRm
    \/ StopFlag
    \/ Extract
    \/ SetupTempDirectory
    \/ StartServer
    \/ StartRefreshTask
    \/ SetRunning
    \/ \E t \in DOMAIN tasks : LoopStart(t)
    \/ \E t \in DOMAIN tasks : TaskCancelled(t)
    \/ \E t \in DOMAIN tasks : SleepElapsed(t)
    \/ \E t \in DOMAIN tasks : FetchOk(t, 1)
    \/ WriteChunk
    \/ Replace
    \/ \E n \in Names : ReqOpen(n)
    \/ ReqRead

\* The loop thread goes on with the synchronous code it is in whenever the
\* call it is at can return; nothing is assumed of sensors and clients.
StopSpec == Init /\ [][StopNext]_vars /\ WF_vars(LoopThreadRuns)

\* ------------------------------------------------- the poller on its own
\* The ids of the poll tasks made by a call of _start_refresh_task that is
\* not part of a reconfigure.
PollerIds == {MaxReconf + i : i \in 1..MaxStart}

\* lines 223-230: _start_refresh_task is entered on its own, the Start of
\* the poller, whatever self.refresh_task holds.
StartPollerCall ==
    /\ pc = "idle"
    /\ \E i \in PollerIds : i \notin DOMAIN tasks
    /\ LET id == CHOOSE i \in PollerIds : i \notin DOMAIN tasks
           ts == IF refresh_task # 0 /\ ~Done(refresh_task)
                 THEN Cancel(tasks, refresh_task) ELSE tasks
       IN /\ tasks' = ts @@ (id :> NewTask("loop"))
          /\ refresh_task' = id
    /\ reply' = NoReply
    /\ UNCHANGED <<sensors, port, refresh_interval, server, server_thread,
                   temp_dir, running, pc, op, cfg, gen, outcome, wr, fs,
                   bound, httpd, lastOk>>

\* One Generation, its scheduled ticks, and the poller started and stopped
\* by direct calls.
PollerNext ==
    \/ gen = 0 /\ \E c \in Configs : ReconfigureCall(c)
    \/ ShutdownCall
    \/ StartPollerCall
    \/ StopTask
    \/ StopSrv
    \/ StopJoin
    \/ StopRm
    \/ StopFlag
    \/ Extract
    \/ SetupTempDirectory
    \/ StartServer
    \/ StartRefreshTask
    \/ SetRunning
    \/ \E t \in DOMAIN tasks : LoopStart(t)
    \/ \E t \in DOMAIN tasks : TaskCancelled(t)
    \/ \E t \in DOMAIN tasks : SleepElapsed(t)
    \/ \E t \in DOMAIN tasks : FetchFail(t)
    \/ \E t \in DOMAIN tasks : FetchOk(t, 1)
    \/ WriteChunk
    \/ Replace

PollerSpec == Init /\ [][PollerNext]_vars

\* --------------------------------------------------------------- claims

\* C1: every completed read of a source's current.json returns one complete
\* document, written by a single publish: never a partial document, a mix of
\* two publishes, or what an unfinished next.json holds.
C1_ReadIsOneSnapshot ==
    [][(httpd.st = "reading" /\ httpd'.st = "idle") => httpd.buf \in Docs]_vars

\* A read has returned the whole previous snapshot from a file that has been
\* replaced since, and the next publish is already being written.
C1_Witness ==
    /\ httpd.st = "reading"
    /\ httpd.fd.at = "orphan"
    /\ httpd.buf \in Docs
    /\ pc = "pub"
    /\ wr.pos = 1
    /\ wr.val # httpd.buf[1]

C3_FailedReconfigureLeavesNothing ==
    (pc = "idle" /\ outcome = "raised") =>
        /\ ~running
        /\ server = NoServer /\ bound = {}
        /\ LiveLoops = {}
        /\ DOMAIN fs = {}

\* C4: the steps of reconfigure happen in order.  A root directory is
\* created only when the old one is removed, no server is bound and no poll
\* task is live; a port is bound only when the new directory exists and no
\* poll task is live; a poll task starts only when the server is bound;
\* running becomes true only when all three exist.  In teardown the server
\* is stopped only after the poll task, the directory removed only after
\* the server.
C4_StepsInOrder ==
    [][ /\ (~(DOMAIN fs' \subseteq DOMAIN fs) =>
               DOMAIN fs = {} /\ bound = {} /\ LiveLoops = {} /\ ~running)
        /\ (~(bound' \subseteq bound) =>
               DOMAIN fs = {temp_dir} /\ LiveLoops = {} /\ ~running)
        /\ (~(LiveLoops' \subseteq LiveLoops) =>
               bound = {port} /\ server.dir = temp_dir /\ temp_dir \in DOMAIN fs
               /\ ~running)
        /\ (running' /\ ~running =>
               bound = {port} /\ temp_dir \in DOMAIN fs /\ LiveLoops = {refresh_task})
        /\ (bound' # bound /\ bound' \subseteq bound => LiveLoops = {})
        /\ (DOMAIN fs' # DOMAIN fs /\ DOMAIN fs' \subseteq DOMAIN fs =>
               bound = {} /\ LiveLoops = {}) ]_vars

\* A reconfigure that found a Generation live has torn it down and started
\* directory, server and poll task of the new one.
C4_Witness ==
    /\ pc = "set_running" /\ gen = 2 /\ lastOk # NoLast
    /\ DOMAIN fs = {2} /\ server.dir = 2 /\ LiveLoops = {2}

\* C5: in one pass, a sensor whose get_readings or publish fails does not
\* stop the pass: as long as the pass is not cancelled, the slot of a sensor
\* ends with that sensor published or failed and with the next sensor of the
\* list in its slot, so the sensors published are, in configured order, the
\* ones that did not fail.
C5_FailureDoesNotStopPass ==
    /\ [](\A t \in DOMAIN tasks :
            tasks[t].st = "fetch" =>
                tasks[t].pass.log =
                    SelectSeq(SubSeq(tasks[t].pass.list, 1, tasks[t].pass.idx - 1),
                              LAMBDA n : n \notin tasks[t].pass.failed))
    /\ [][\A t \in DOMAIN tasks :
            ( /\ tasks[t].st = "fetch" /\ ~tasks[t].cancelled
              /\ tasks[t].pass.idx < Len(tasks[t].pass.list)
              /\ (t \notin DOMAIN tasks' \/ tasks'[t] # tasks[t]) )
            => /\ t \in DOMAIN tasks'
               /\ \/ tasks'[t].cancelled
                  \/ /\ tasks'[t].st = "fetch"
                     /\ tasks'[t].pass.list = tasks[t].pass.list
                     /\ tasks'[t].pass.idx = tasks[t].pass.idx + 1]_vars

\* The first sensor of a pass has failed and the document of the second is
\* written, ready to be renamed.
C5_Witness ==
    /\ pc = "pub" /\ wr.pos = DocLen
    /\ tasks[wr.task].pass.idx = 2
    /\ tasks[wr.task].pass.failed # {}

\* C6: a sensor whose get_readings hangs delays only its own slot: the
\* sensors after it in the list still get their slot in that tick (their
\* get_readings is called, so that they are published once it returns).
C6_HangDelaysOnlyOwnSlot ==
    (\E t \in DOMAIN tasks :
        /\ tasks[t].st = "fetch"
        /\ Sensor(tasks[t]) = Hung
        /\ tasks[t].pass.idx < Len(tasks[t].pass.list))
    ~> (\E t \in DOMAIN tasks :
        tasks[t].st = "fetch" /\ Sensor(tasks[t]) # Hung)

\* A tick awaits the get_readings of Hung, with another sensor after it.
C6_Witness ==
    \E t \in DOMAIN tasks :
        /\ tasks[t].kind = "loop" /\ tasks[t].st = "fetch"
        /\ Sensor(tasks[t]) = Hung
        /\ tasks[t].pass.list = <<Hung, "b">>

\* C7: a publish that fails (at open, while the document is written, or at
\* the rename) leaves the sensor's current.json as it was before the
\* attempt; if there was none, there is none.
C7_FailedPublishKeepsCurrent ==
    [][ /\ (PublishFail =>
               Content(fs', wr.dir, wr.name, "current") = wr.before)
        /\ (\A t \in DOMAIN tasks : OpenFail(t) => fs' = fs) ]_vars

\* A publish has failed half-way (its next.json is left incomplete) beside
\* a current.json that holds a complete document.
C7_Witness ==
    /\ pc = "idle"
    /\ \E d \in DOMAIN fs : \E n \in DOMAIN fs[d] :
          /\ fs[d][n].current \in Docs
          /\ fs[d][n].next # Absent
          /\ Len(fs[d][n].next) = 1

\* C8: a fetch started under a Generation that has been torn down since
\* writes no file: every file a pass writes lies in the root directory the
\* pass began under.
C8_StalePublishDropped ==
    pc = "pub" => wr.dir = tasks[wr.task].pass.gen

\* C9: when no Generation is live, status reports the empty Generation, as
\* it does on a new object: not running, no sensors, no temp_dir, and the
\* port and interval the constructor set.
C9_StatusEmptyWhenNotLive ==
    (pc = "idle" /\ ~running) =>
        Status = [running |-> FALSE, port |-> DefaultPort, sensors |-> <<>>,
                  refresh_interval |-> DefaultRefresh, temp_dir |-> ""]

\* C10: status reflects the last reconfigure that completed: right after it,
\* running with its port, sensors, interval and directory; and whatever
\* happens later, a failed reconfigure included, the port, sensors and
\* interval reported stay those of that reconfigure.
C10_StatusIsLastSuccess ==
    pc = "idle" =>
        /\ (outcome = "ok" => Status.running /\ Status.temp_dir = DirName(gen))
        /\ (lastOk # NoLast =>
               /\ Status.port = lastOk.port
               /\ Status.sensors = lastOk.sensors
               /\ Status.refresh_interval = lastOk.refresh_interval)

\* The steps of _stop_server.
StopSteps == {"stop_task", "stop_srv", "stop_join", "stop_rm", "stop_flag"}

\* Nothing is live: not running, no server, no thread that runs, no poll
\* task, no root directory.
NothingLive ==
    /\ ~running
    /\ server = NoServer
    /\ server_thread # "live"
    /\ refresh_task = 0
    /\ temp_dir = 0

\* C11: _stop_server called when nothing is live (a second time after a
\* first call, or before any reconfigure) raises no error and leaves the
\* state as it was: every step of it goes on to the next one and leaves
\* the fields, the tasks, the files and the bound ports unchanged.
C11_StopTwiceIsNoOp ==
    [][(pc \in StopSteps /\ NothingLive) =>
          /\ fields' = fields
          /\ tasks' = tasks /\ fs' = fs /\ bound' = bound
          /\ outcome' # "raised"
          /\ pc' \in (StopSteps \cup {"idle", "extract"}) \ {pc}]_vars

\* A second _stop_server, called after the first one tore a Generation
\* down, is at its last step; the thread object of the first is still held.
C11_Witness ==
    /\ op = "shutdown" /\ pc = "stop_flag"
    /\ NothingLive
    /\ server_thread = "dead"
    /\ lastOk # NoLast

\* The ids a refresh_now command can run under.
CmdIds == {0 - i : i \in 1..MaxCmd}

\* C12: refresh_now while not running returns the "not running" error,
\* without raising, awaits no get_readings and writes no file.  While
\* running, it starts one pass over the sensors of the live Generation, the
\* pass takes the sensors one by one in configured order, and the
\* confirmation is returned only when the last sensor has had its slot.
C12_RefreshNowOnePass ==
    [][ /\ (RefreshNow /\ ~running =>
               /\ reply' = NotRunning
               /\ tasks' = tasks /\ fs' = fs /\ wr' = wr /\ pc' = "idle")
        /\ (reply' = NotRunning => ~running)
        /\ \A t \in CmdIds :
              /\ (t \notin DOMAIN tasks /\ t \in DOMAIN tasks' =>
                     /\ running
                     /\ tasks'[t].st = "fetch"
                     /\ tasks'[t].pass.list = lastOk.sensors
                     /\ tasks'[t].pass.idx = 1
                     /\ reply' = NoReply)
              /\ (t \in DOMAIN tasks /\ t \in DOMAIN tasks' =>
                     /\ tasks'[t].pass.list = tasks[t].pass.list
                     /\ tasks'[t].pass.idx \in
                            {tasks[t].pass.idx, tasks[t].pass.idx + 1}
                     /\ (tasks'[t] # tasks[t] => reply' = NoReply))
              /\ (t \in DOMAIN tasks /\ t \notin DOMAIN tasks' =>
                     /\ tasks[t].pass.idx = Len(tasks[t].pass.list)
                     /\ reply' = Refreshed)
        /\ (reply' = Refreshed /\ reply # Refreshed =>
               \/ \E t \in CmdIds : t \in DOMAIN tasks /\ t \notin DOMAIN tasks'
               \/ running /\ lastOk.sensors = <<>> /\ tasks' = tasks) ]_vars

\* A refresh_now issued while two sensors were configured has returned its
\* confirmation, the second sensor's document published last.
C12_Witness ==
    /\ reply = Refreshed
    /\ running
    /\ lastOk.sensors = <<"a", "b">>
    /\ fs[temp_dir]["b"].current \in Docs

\* The port attribute is a number outside [1, 65535].
PortOutOfRange(c) == c.port < Scale \/ c.port > MaxPort * Scale

\* A configuration the claim calls invalid.
BadConfig(c) ==
    \/ ~c.has_port
    \/ PortOutOfRange(c)
    \/ ~c.has_sensors
    \/ c.sensors = <<>>

\* C13: a configuration whose port is outside [1,65535], that has no port or
\* that names no sensor is rejected by validate_config before any resource
\* is touched: no reconfigure is ever entered with such a configuration, and
\* the rejection leaves fields, tasks, files and bound ports as they were.
C13_BadConfigRejected ==
    /\ [](cfg # NoCfg => ~BadConfig(cfg))
    /\ [][\A c \in RawConfigs :
            ValidateConfigRaises(c) =>
                /\ fields' = fields
                /\ tasks' = tasks /\ fs' = fs /\ bound' = bound]_vars

\* C20: for every port value validate_config accepts, the integer port the
\* server is bound to lies in [1,65535].
C20_BoundPortInRange ==
    server # NoServer => server.port \in 1..MaxPort

\* The place of name n in the configured list s.
Pos(s, n) == CHOOSE k \in 1..Len(s) : s[k] = n

\* C14: a configured name without a handle in the dependencies is dropped
\* and never aborts the configuration: the extraction step goes on to the
\* directory setup with exactly the configured names that have a handle, in
\* configured order, and once the directory is set up each of them, and
\* nothing else, has a subdirectory; a reconfigure that completed runs with
\* them.
C14_MissingHandleDropped ==
    /\ []( /\ (pc \in {"start_srv", "start_task", "set_running"} =>
                 temp_dir \in DOMAIN fs /\ DOMAIN fs[temp_dir] = Range(sensors))
           /\ (pc = "idle" /\ outcome = "ok" =>
                 /\ running
                 /\ lastOk.sensors = sensors
                 /\ DOMAIN fs[temp_dir] = Range(sensors)) )
    /\ [][ /\ (pc = "extract" =>
                 /\ pc' = "setup_dir"
                 /\ Range(sensors') = Range(cfg.sensors) \cap cfg.deps
                 /\ Len(sensors') = Cardinality(Range(sensors'))
                 /\ \A i, j \in 1..Len(sensors') :
                       i < j => Pos(cfg.sensors, sensors'[i])
                                    < Pos(cfg.sensors, sensors'[j]))
           /\ (pc \in {"setup_dir", "start_srv", "start_task", "set_running"} =>
                 sensors' = sensors) ]_vars

\* A reconfigure whose configuration names b and a, with a handle for a
\* only, has completed: the Generation runs with a alone.
C14_Witness ==
    /\ pc = "idle" /\ outcome = "ok" /\ running
    /\ sensors = <<"a">>
    /\ port = 8081
    /\ DOMAIN fs[temp_dir] = {"a"}

\* C15: teardown always terminates: a _stop_server that has been entered
\* returns, also when a get_readings or an HTTP request is in flight and
\* never ends.
C15_TeardownTerminates == (pc \in StopSteps) ~> (pc \notin StopSteps)

\* _stop_server is at server.shutdown() while a request is being answered.
C15_Witness ==
    /\ pc = "stop_srv"
    /\ server # NoServer
    /\ httpd.st = "reading"

\* A step in which a fetch or a publish of poll task t fails.
FailureOf(t) ==
    \/ FetchFail(t)
    \/ OpenFail(t)
    \/ wr.task = t /\ PublishFail

\* C16: a fetch or publish failure of the poll task never ends the
\* Generation: the step leaves running, server, root directory and bound
\* port as they are and the poll task alive, at its next sensor or asleep
\* until the next tick; and a poll task that awaits a get_readings has the
\* sensor's directory to publish in, where a document that is completed
\* becomes current.json.
C16_FailuresKeepGeneration ==
    /\ [](\A t \in LiveLoops :
            pc = "idle" /\ tasks[t].st = "fetch" =>
                /\ running
                /\ server = [port |-> port, dir |-> temp_dir]
                /\ Exists(fs, temp_dir, Sensor(tasks[t])))
    /\ [][\A t \in LiveLoops :
            /\ (FailureOf(t) =>
                  /\ running' /\ running
                  /\ server' = server /\ bound' = bound
                  /\ temp_dir' = temp_dir /\ DOMAIN fs' = DOMAIN fs
                  /\ refresh_task' = t
                  /\ t \in LiveLoops'
                  /\ tasks'[t].st \in {"fetch", "sleep"})
            /\ (wr.task = t /\ Replace =>
                  /\ wr.dir = temp_dir
                  /\ fs'[temp_dir][wr.name].current = Doc(wr.val)
                  /\ t \in LiveLoops')]_vars

\* A publish of b has failed in an earlier pass, leaving its next.json
\* incomplete and no current.json; the poll task, in a later tick, has
\* fetched a and written its whole document.
C16_Witness ==
    /\ pc = "pub" /\ wr.task = refresh_task /\ wr.task > 0
    /\ wr.name = "a" /\ wr.pos = DocLen
    /\ tasks[wr.task].pass.list = <<"a", "b">>
    /\ tasks[wr.task].pass.idx = 1
    /\ fs[temp_dir]["b"].current = Absent
    /\ fs[temp_dir]["b"].next # Absent /\ Len(fs[temp_dir]["b"].next) = 1

\* Every sensor of the list has its subdirectory under root directory d.
DirsExist(d) == \A n \in Range(sensors) : Exists(fs, d, n)

\* C17: the subdirectory of every sensor of a Generation exists before its
\* server starts and before its first fetch, and as long as the Generation
\* is not torn down: whenever the server exists, a poll task can run or the
\* component is running and at rest, and for every pass begun under the
\* present root directory.
C17_SourceDirsExist ==
    /\ []( /\ (server # NoServer => DirsExist(server.dir))
           /\ (LiveLoops # {} => DirsExist(temp_dir))
           /\ (pc = "idle" /\ running => DirsExist(temp_dir))
           /\ \A t \in DOMAIN tasks :
                 ( /\ tasks[t].st = "fetch" /\ ~tasks[t].cancelled
                   /\ temp_dir # 0 /\ tasks[t].pass.gen = temp_dir )
                 => Exists(fs, temp_dir, Sensor(tasks[t])) )
    /\ [][ /\ (server' # server /\ server' # NoServer =>
                 server'.dir = temp_dir /\ DirsExist(temp_dir) /\ sensors' = sensors)
           /\ (~(LiveLoops' \subseteq LiveLoops) =>
                 DirsExist(temp_dir) /\ sensors' = sensors) ]_vars

\* The server of a Generation of two sensors is about to be started: both
\* subdirectories are there, empty.
C17_Witness ==
    /\ pc = "start_srv" /\ server = NoServer
    /\ sensors = <<"a", "b">>
    /\ fs[temp_dir] = [n \in {"a", "b"} |-> NoEntries]

\* The poll task self.refresh_task names is running.
PollerRunning == refresh_task # 0 /\ ~Done(refresh_task)

\* C18: starting the poller while a poll task is running fails with an
\* error and leaves the running poll task in place; stopping a poller that
\* is idle or stopped is a no-op.
C18_StartWhileRunningFails ==
    [][ /\ (StartPollerCall /\ PollerRunning =>
               /\ reply'.key = "error"
               /\ tasks' = tasks
               /\ refresh_task' = refresh_task)
        /\ (StopTask /\ ~PollerRunning =>
               tasks' = tasks /\ refresh_task' = refresh_task) ]_vars

\* The poll task of the Generation is asleep between two ticks and the
\* component runs: the state in which the poller is started again.
C18_Witness ==
    /\ pc = "idle" /\ running
    /\ PollerRunning
    /\ tasks[refresh_task].st = "sleep"
    /\ ~tasks[refresh_task].cancelled

\* C19: once _stop_server has cancelled a poll task, the task starts no tick
\* and completes no publish: its only step is its end.  The cancelling step
\* leaves no poll task that can run; at every moment at most one poll task
\* can fetch or publish, it is the one self.refresh_task names, and after a
\* reconfigure that completed it is the task that reconfigure made.
C19_CancelStopsPollTask ==
    /\ []( /\ Cardinality(LiveLoops) <= 1
           /\ LiveLoops \subseteq {refresh_task}
           /\ (pc = "pub" /\ tasks[wr.task].kind = "loop" =>
                 wr.task \in LiveLoops)
           /\ (pc = "idle" /\ outcome = "ok" => LiveLoops = {gen}) )
    /\ [][ /\ (StopTask => LiveLoops' = {})
           /\ \A t \in DOMAIN tasks :
                 tasks[t].cancelled =>
                     /\ (t \in DOMAIN tasks' => tasks'[t] = tasks[t])
                     /\ wr'.task # t ]_vars

\* The poll task of the first Generation was cancelled in the middle of a
\* get_readings and has not yet run to take the cancellation; the poll task
\* of the second Generation already awaits a get_readings of its own.
C19_Witness ==
    /\ gen = 2
    /\ 1 \in DOMAIN tasks /\ tasks[1].cancelled /\ tasks[1].st = "fetch"
    /\ 2 \in LiveLoops /\ tasks[2].st = "fetch"

====
